---- MODULE Spec2Model ----
(***************************************************************************)
(* TaskScheduler (src/cors_config.py): a queue.PriorityQueue of            *)
(* (priority, task) tuples, worker threads running worker_function, two    *)
(* bounded deques of terminal records and the running_tasks dict.          *)
(*                                                                         *)
(* Threads interleave between statements.  One action is one block of      *)
(* worker_function between two points where another thread can observe    *)
(* or change the shared structures: the loop test, the blocking get, the   *)
(* eligibility test with either the re-insert or the dispatch, the body    *)
(* with its outcome handling, and the finally clause.  The body,           *)
(* execute_task, is run inside try/except Exception: whether it returns or *)
(* raises is an input of the worker, chosen per attempt.  The timestamps   *)
(* created_at, started_at, completed_at and the result and error payloads  *)
(* of a Task are written and never read by the scheduler; they are left    *)
(* out.                                                                    *)
(***************************************************************************)
EXTENDS Integers, Sequences, FiniteSets, TLC

\* ---------------------------------------------------------------- bounds
MaxTasks == 2          \* add_task calls in one run
MaxTime == 2           \* last value of the clock (time.time())
MaxThreads == 2        \* worker threads ever spawned
MaxCallers == 2        \* threads calling add_task at the same time
MaxOverflow == 2       \* terminal records appended beyond the capacity of a store

Priorities == {1, 3, 4}     \* priority arguments of add_task
Delays == {0, 1}            \* delay arguments of add_task
WorkerCounts == {1, 2}      \* values of self.worker_count
\* A task name stands for the behaviour of the body run for it: "ok" returns
\* on every attempt, "flaky" returns or raises on each attempt.
Names == {"ok", "flaky"}

\* ------------------------------------------------------- program constants
max_retries == 3
completed_maxlen == 1000
failed_maxlen == 500

VARIABLES
    now,              \* time.time()
    task_counter,     \* self.task_counter
    tasks,            \* the Task objects, in creation order
    task_queue,       \* the heap array of self.task_queue: <<priority, task>> entries
    running_tasks,    \* self.running_tasks: task_id -> task
    completed_tasks,  \* self.completed_tasks
    failed_tasks,     \* self.failed_tasks
    running,          \* self.running
    worker_count,     \* self.worker_count
    workers,          \* len(self.workers)
    pc,               \* where each worker thread stands in worker_function
    cur,              \* each worker's locals priority, task
    hist,             \* history, per task: the arguments and time of add_task, the dispatches
    call              \* each calling thread's position in add_task and its locals

vars == <<now, task_counter, tasks, task_queue, running_tasks, completed_tasks,
          failed_tasks, running, worker_count, workers, pc, cur, hist, call>>

Threads == 1..MaxThreads
NoTask == [priority |-> 0, task |-> 0]
TaskIds == 1..Len(tasks)
Callers == 1..MaxCallers
\* a caller outside add_task
NoCall == [pc |-> "idle", name |-> "", priority |-> 0, delay |-> 0,
           counter |-> 0, task_id |-> <<0, 0>>]

Max(a, b) == IF a >= b THEN a ELSE b

\* ------------------------------------------------------------------ Task
\* f"task_{self.task_counter}_{int(time.time())}": the counter and the whole
\* seconds of the clock, kept apart by the separator.
TaskId(counter, t) == <<counter, t>>

\* Task.__init__ at time t: scheduled_time or time.time() replaces a falsy (zero) time.
NewTask(task_id, name, priority, scheduled_time, t) ==
    [task_id |-> task_id, name |-> name, priority |-> priority,
     scheduled_time |-> IF scheduled_time = 0 THEN t ELSE scheduled_time,
     status |-> "pending", retries |-> 0]

\* Task.__lt__
TaskLt(a, b) == a.priority < b.priority

\* Task.to_dict
to_dict(task) ==
    [id |-> task.task_id, priority |-> task.priority,
     status |-> task.status, retries |-> task.retries]

\* ----------------------------------------------------- queue.PriorityQueue
\* Comparison of two (priority, task) tuples: the first differing component
\* decides; two tuples holding the same Task object are equal, not less.
EntryLt(a, b, ts) ==
    IF a.priority # b.priority THEN a.priority < b.priority
    ELSE a.task # b.task /\ TaskLt(ts[a.task], ts[b.task])

\* heapq._siftdown, positions counted from 0 as in the library.
RECURSIVE SiftDownLoop(_, _, _, _, _)
SiftDownLoop(heap, newitem, startpos, pos, ts) ==
    IF pos > startpos
    THEN LET parentpos == (pos - 1) \div 2
             parent == heap[parentpos + 1]
         IN IF EntryLt(newitem, parent, ts)
            THEN SiftDownLoop([heap EXCEPT ![pos + 1] = parent],
                              newitem, startpos, parentpos, ts)
            ELSE [heap EXCEPT ![pos + 1] = newitem]
    ELSE [heap EXCEPT ![pos + 1] = newitem]

siftdown(heap, startpos, pos, ts) ==
    SiftDownLoop(heap, heap[pos + 1], startpos, pos, ts)

\* heapq._siftup: bubble the smaller child up to a leaf, then sift down.
RECURSIVE SiftUpLoop(_, _, _, _)
SiftUpLoop(heap, pos, childpos, ts) ==
    IF childpos < Len(heap)
    THEN LET rightpos == childpos + 1
             c == IF rightpos < Len(heap)
                     /\ ~EntryLt(heap[childpos + 1], heap[rightpos + 1], ts)
                  THEN rightpos ELSE childpos
         IN SiftUpLoop([heap EXCEPT ![pos + 1] = heap[c + 1]], c, 2 * c + 1, ts)
    ELSE <<heap, pos>>

siftup(heap, pos, ts) ==
    LET newitem == heap[pos + 1]
        r == SiftUpLoop(heap, pos, 2 * pos + 1, ts)
    IN siftdown([r[1] EXCEPT ![r[2] + 1] = newitem], pos, r[2], ts)

\* PriorityQueue.put -> heapq.heappush
heappush(heap, item, ts) == siftdown(Append(heap, item), 0, Len(heap), ts)

\* PriorityQueue.get -> heapq.heappop: the item returned ...
PopItem(heap) == heap[1]

\* a get that returns the head and leaves it in the heap
PopRestPeek(heap, ts) == heap

\* ... and the heap it leaves.
PopRest(heap, ts) ==
    LET lastelt == heap[Len(heap)]
        rest == SubSeq(heap, 1, Len(heap) - 1)
    IN IF rest # <<>> THEN siftup([rest EXCEPT ![1] = lastelt], 0, ts) ELSE <<>>

\* a deque that never evicts
deque_append_unbounded(d, x, maxlen) == Append(d, x)

\* deque(maxlen=n).append
deque_append(d, x, maxlen) ==
    IF Len(d) >= maxlen THEN Append(Tail(d), x) ELSE Append(d, x)

QueuedTasks == {task_queue[i].task : i \in 1..Len(task_queue)}
RunningIds == DOMAIN running_tasks

\* ----------------------------------------------------------------- Init
Init ==
    /\ now = 1
    /\ task_counter = 0
    /\ tasks = <<>>
    /\ task_queue = <<>>
    /\ running_tasks = [i \in {} |-> 0]
    /\ completed_tasks = <<>>
    /\ failed_tasks = <<>>
    /\ running = TRUE
    /\ worker_count \in WorkerCounts
    /\ workers = 0
    /\ pc = [w \in Threads |-> "unborn"]
    /\ cur = [w \in Threads |-> NoTask]
    /\ hist = <<>>
    /\ call = [c \in Callers |-> NoCall]

\* The clock advances.
Tick ==
    /\ now < MaxTime
    /\ now' = now + 1
    /\ UNCHANGED <<task_counter, tasks, task_queue, running_tasks, completed_tasks,
                   failed_tasks, running, worker_count, workers, pc, cur, hist, call>>

\* add_task(name, priority, delay)
add_task(name, priority, delay) ==
    /\ Len(tasks) < MaxTasks
    /\ now + delay <= MaxTime
    /\ task_counter' = task_counter + 1
    /\ LET task == NewTask(TaskId(task_counter + 1, now), name, priority, now + delay, now)
           ts == Append(tasks, task)
       IN /\ tasks' = ts
          /\ task_queue' = heappush(task_queue, [priority |-> priority, task |-> Len(ts)], ts)
    /\ hist' = Append(hist, [original |-> priority, submitted |-> now, delay |-> delay,
                              attempts |-> 0])
    /\ UNCHANGED <<now, running_tasks, completed_tasks, failed_tasks, running,
                   worker_count, workers, pc, cur, call>>

\* self.running_tasks[task_id] = task
dict_set(d, k, v) == [x \in DOMAIN d \cup {k} |-> IF x = k THEN v ELSE d[x]]

\* if task_id in self.running_tasks: del self.running_tasks[task_id]
dict_discard(d, k) == [x \in DOMAIN d \ {k} |-> d[x]]

\* start_workers(): one thread per range(self.worker_count), appended to self.workers
start_workers ==
    /\ workers + worker_count <= MaxThreads
    /\ workers' = workers + worker_count
    /\ pc' = [w \in Threads |->
                IF w > workers /\ w <= workers + worker_count THEN "loop" ELSE pc[w]]
    /\ UNCHANGED <<now, task_counter, tasks, task_queue, running_tasks, completed_tasks,
                   failed_tasks, running, worker_count, cur, hist, call>>

\* a stop that flips the flag instead of clearing it
stop_workers_flip ==
    /\ running' = ~running
    /\ UNCHANGED <<now, task_counter, tasks, task_queue, running_tasks, completed_tasks,
                   failed_tasks, worker_count, workers, pc, cur, hist, call>>

\* stop_workers(): clears the flag; the joins time out or return, changing nothing
stop_workers ==
    /\ running' = FALSE
    /\ UNCHANGED <<now, task_counter, tasks, task_queue, running_tasks, completed_tasks,
                   failed_tasks, worker_count, workers, pc, cur, hist, call>>

\* ------------------------------------------------------- worker_function
\* while self.running:
WLoop(w) ==
    /\ pc[w] = "loop"
    /\ pc' = [pc EXCEPT ![w] = IF running THEN "get" ELSE "done"]
    /\ UNCHANGED <<now, task_counter, tasks, task_queue, running_tasks, completed_tasks,
                   failed_tasks, running, worker_count, workers, cur, hist, call>>

\* priority, task = self.task_queue.get(timeout=1), an entry being there
WGet(w) ==
    /\ pc[w] = "get"
    /\ task_queue # <<>>
    /\ cur' = [cur EXCEPT ![w] = PopItem(task_queue)]
    /\ task_queue' = PopRest(task_queue, tasks)
    /\ pc' = [pc EXCEPT ![w] = "got"]
    /\ UNCHANGED <<now, task_counter, tasks, running_tasks, completed_tasks,
                   failed_tasks, running, worker_count, workers, hist, call>>

\* the get times out on an empty queue: except queue.Empty: continue
WEmpty(w) ==
    /\ pc[w] = "get"
    /\ task_queue = <<>>
    /\ pc' = [pc EXCEPT ![w] = "loop"]
    /\ UNCHANGED <<now, task_counter, tasks, task_queue, running_tasks, completed_tasks,
                   failed_tasks, running, worker_count, workers, cur, hist, call>>

\* an eligibility test that lets every task through
NotYetEligibleNever(task, t) == FALSE

\* an eligibility test with the comparison reversed
NotYetEligibleReversed(task, t) == task.scheduled_time <= t

\* if task.scheduled_time > time.time():
NotYetEligible(task, t) == task.scheduled_time > t

\* self.task_queue.put((priority, task)) of a task taken too early
Reinsert(heap, entry, ts) == heappush(heap, entry, ts)

\* ... put it back, time.sleep(0.1), continue: the sleep changes nothing another
\* thread can see, so the worker is back at the loop test
WReinsert(w) ==
    /\ pc[w] = "got"
    /\ NotYetEligible(tasks[cur[w].task], now)
    /\ task_queue' = Reinsert(task_queue, cur[w], tasks)
    /\ pc' = [pc EXCEPT ![w] = "loop"]
    /\ cur' = [cur EXCEPT ![w] = NoTask]
    /\ UNCHANGED <<now, task_counter, tasks, running_tasks, completed_tasks,
                   failed_tasks, running, worker_count, workers, hist, call>>

\* task.status = 'running' ... self.running_tasks[task.task_id] = task
WDispatch(w) ==
    /\ pc[w] = "got"
    /\ ~NotYetEligible(tasks[cur[w].task], now)
    /\ LET t == cur[w].task
       IN /\ tasks' = [tasks EXCEPT ![t].status = "running"]
          /\ running_tasks' = dict_set(running_tasks, tasks[t].task_id, t)
          /\ hist' = [hist EXCEPT ![t].attempts = @ + 1]
    /\ pc' = [pc EXCEPT ![w] = "exec"]
    /\ UNCHANGED <<now, task_counter, task_queue, completed_tasks, failed_tasks,
                   running, worker_count, workers, cur, call>>

\* execute_task returns: the task is completed and recorded
WReturn(w) ==
    /\ pc[w] = "exec"
    /\ LET t == cur[w].task
           done == [tasks[t] EXCEPT !.status = "completed"]
       IN /\ tasks' = [tasks EXCEPT ![t] = done]
          /\ completed_tasks' =
                deque_append(completed_tasks, to_dict(done), completed_maxlen)
    /\ pc' = [pc EXCEPT ![w] = "finally"]
    /\ UNCHANGED <<now, task_counter, task_queue, running_tasks, failed_tasks,
                   running, worker_count, workers, cur, hist, call>>

\* a retry test that is off by one
ShouldRequeueLe(retries) == retries <= max_retries

\* if task.retries < task.max_retries:
ShouldRequeue(retries) == retries < max_retries

\* a decrement without the floor
RetryPriorityNoFloor(priority) == priority - 1

\* task.priority = max(1, task.priority - 1)
RetryPriority(priority) == Max(1, priority - 1)

\* the tuple put back after a failed attempt: (priority, task), priority being
\* the worker's local, the value the entry was dequeued with
RequeueEntry(priority, t, ts) == [priority |-> priority, task |-> t]

\* an except branch that puts the task back whatever its retries
FailQueueAlways(heap, entry, retries, ts) == heappush(heap, entry, ts)

\* the except branch: the queue after it ...
FailQueue(heap, entry, retries, ts) ==
    IF ShouldRequeue(retries) THEN heappush(heap, entry, ts) ELSE heap

\* ... and the failed store after it
FailStore(store, task) ==
    IF ShouldRequeue(task.retries) THEN store
    ELSE deque_append(store, to_dict(task), failed_maxlen)

\* the body raises: except Exception
WRaise(w) ==
    /\ pc[w] = "exec"
    /\ tasks[cur[w].task].name = "flaky"
    /\ LET t == cur[w].task
           r == tasks[t].retries + 1
           failed == [tasks[t] EXCEPT
                        !.status = "failed",
                        !.retries = r,
                        !.priority = IF ShouldRequeue(r) THEN RetryPriority(@) ELSE @]
           ts == [tasks EXCEPT ![t] = failed]
       IN /\ tasks' = ts
          /\ task_queue' = FailQueue(task_queue, RequeueEntry(cur[w].priority, t, ts), r, ts)
          /\ failed_tasks' = FailStore(failed_tasks, failed)
    /\ pc' = [pc EXCEPT ![w] = "finally"]
    /\ UNCHANGED <<now, task_counter, running_tasks, completed_tasks,
                   running, worker_count, workers, cur, hist, call>>

\* finally: drop the running entry; then task_done() and the next iteration
WFinally(w) ==
    /\ pc[w] = "finally"
    /\ running_tasks' = dict_discard(running_tasks, tasks[cur[w].task].task_id)
    /\ pc' = [pc EXCEPT ![w] = "loop"]
    /\ cur' = [cur EXCEPT ![w] = NoTask]
    /\ UNCHANGED <<now, task_counter, tasks, task_queue, completed_tasks, failed_tasks,
                   running, worker_count, workers, hist, call>>

Worker(w) ==
    \/ WLoop(w)
    \/ WGet(w)
    \/ WEmpty(w)
    \/ WReinsert(w)
    \/ WDispatch(w)
    \/ WReturn(w)
    \/ WRaise(w)
    \/ WFinally(w)

Next ==
    \/ Tick
    \/ \E name \in Names, priority \in Priorities, delay \in Delays :
          add_task(name, priority, delay)
    \/ start_workers
    \/ stop_workers
    \/ \E w \in Threads : Worker(w)

Spec == Init /\ [][Next]_vars

\* ------------------------------------------------------------ vocabulary
InQueue(t) == t \in QueuedTasks
InRunning(t) == tasks[t].task_id \in DOMAIN running_tasks
Eligible(t) == tasks[t].scheduled_time <= now
Completed(t) == tasks[t].status = "completed"
PermanentlyFailed(t) == \E i \in 1..Len(failed_tasks) : failed_tasks[i].id = tasks[t].task_id
Terminal(t) == Completed(t) \/ PermanentlyFailed(t)
\* the worker has the task from the queue and has not finished its attempt
Holds(w, t) == pc[w] \in {"got", "exec"} /\ cur[w].task = t

\* The pool is started and stop_workers is not called.
NextRunning ==
    \/ Tick
    \/ \E name \in Names, priority \in Priorities, delay \in Delays :
          add_task(name, priority, delay)
    \/ start_workers
    \/ \E w \in Threads : Worker(w)

\* A pool of one worker, started once.
InitOneWorker == Init /\ worker_count = 1

start_workers_once == workers = 0 /\ start_workers

NextOneWorker ==
    \/ Tick
    \/ \E name \in Names, priority \in Priorities, delay \in Delays :
          add_task(name, priority, delay)
    \/ start_workers_once
    \/ \E w \in Threads : Worker(w)

\* The worker thread keeps being scheduled; nothing is assumed of the clock.
OneWorkerSpec ==
    /\ InitOneWorker
    /\ [][NextOneWorker]_vars
    /\ \A w \in Threads : WF_vars(Worker(w))

\* Every worker thread keeps being scheduled and the clock advances.
LiveSpec ==
    /\ Init /\ [][NextRunning]_vars
    /\ WF_vars(Tick)
    /\ \A w \in Threads : WF_vars(Worker(w))

TypeOK ==
    /\ now \in 1..MaxTime
    /\ Len(tasks) <= MaxTasks
    /\ \A w \in Threads : pc[w] \in {"unborn", "loop", "get", "got", "exec", "finally", "done"}

\* ------------------------------------------------------------------ C1
\* C1: whenever a worker takes from the queue a task that is eligible (and so
\* dispatches it), that task's priority is the smallest among the tasks that
\* are queued and eligible at that instant.
C1_PriorityOrdering ==
    [][\A w \in Threads :
          (pc[w] = "get" /\ pc'[w] = "got" /\ Eligible(cur'[w].task))
          => \A u \in QueuedTasks :
                Eligible(u) => tasks[cur'[w].task].priority <= tasks[u].priority]_vars

\* ------------------------------------------------------------------ C2
\* C2: no task is at the same time an entry of the queue and a member of the
\* running set.
C2_QueueRunningExclusive ==
    \A t \in TaskIds : ~(InQueue(t) /\ InRunning(t))

\* ------------------------------------------------------------------ C3
\* C3: no two workers hold the same task between receiving it from the queue
\* and the end of its body, and a task has at most one entry in the queue and
\* none while a worker holds it.
C3_ExclusiveOwnership ==
    /\ \A w1, w2 \in Threads : \A t \in TaskIds :
          (w1 # w2 /\ Holds(w1, t)) => ~Holds(w2, t)
    /\ \A i, j \in 1..Len(task_queue) :
          i # j => task_queue[i].task # task_queue[j].task
    /\ \A w \in Threads : \A t \in TaskIds : Holds(w, t) => ~InQueue(t)

\* a worker is still in the finally clause of a failed attempt of a task whose
\* next attempt another worker already has
C3_Witness ==
    \E w1, w2 \in Threads :
        /\ w1 # w2
        /\ pc[w1] = "finally"
        /\ Holds(w2, cur[w1].task)
        /\ hist[cur[w1].task].attempts >= 2

\* ------------------------------------------------------------------ C4
\* C4: retries <= max_retries and at most max_retries + 1 dispatches for every
\* task; a task whose retries reached max_retries is recorded as permanently
\* failed and is not in the queue.
C4_RetryBound ==
    \A t \in TaskIds :
        /\ tasks[t].retries <= max_retries
        /\ hist[t].attempts <= max_retries + 1
        /\ tasks[t].retries = max_retries
              => PermanentlyFailed(t) /\ tasks[t].status = "failed" /\ ~InQueue(t)

C4_Witness ==
    \E t \in TaskIds : tasks[t].retries = max_retries /\ PermanentlyFailed(t)

\* ------------------------------------------------------------------ C5
\* A task is settled when it is neither queued nor in a worker's hands.
Settled(t) == ~InQueue(t) /\ \A w \in Threads : ~(pc[w] # "unborn" /\ cur[w].task = t)
\* every attempt made of the task so far has failed
AlwaysFailed(t) == hist[t].attempts > 0 /\ tasks[t].retries = hist[t].attempts

\* C5 as stated: a task whose every attempt failed ends with retries = 3,
\* status failed, and exactly 4 dispatches.
C5_ScenarioB_FourAttempts ==
    \A t \in TaskIds :
        (AlwaysFailed(t) /\ Settled(t))
        => /\ tasks[t].retries = 3
           /\ tasks[t].status = "failed"
           /\ hist[t].attempts = 4

\* C5 amended: a task whose every attempt failed ends with retries = 3,
\* status failed, recorded in the failed store, after exactly 3 dispatches.
C5_ScenarioB_ThreeAttempts ==
    \A t \in TaskIds :
        (AlwaysFailed(t) /\ Settled(t))
        => /\ tasks[t].retries = 3
           /\ tasks[t].status = "failed"
           /\ PermanentlyFailed(t)
           /\ hist[t].attempts = 3

C5_Witness ==
    \E t \in TaskIds :
        AlwaysFailed(t) /\ Settled(t) /\ hist[t].attempts = 3 /\ PermanentlyFailed(t)

\* ------------------------------------------------------------------ C6
\* C6: a task is in status running, or in a worker's hands executing, only at
\* a time not before its submission time plus its delay.
C6_EligibilityGating ==
    /\ \A t \in TaskIds :
          tasks[t].status = "running" => hist[t].submitted + hist[t].delay <= now
    /\ \A w \in Threads :
          pc[w] = "exec" => hist[cur[w].task].submitted + hist[cur[w].task].delay <= now

\* a task submitted with a delay is running
C6_Witness ==
    \E t \in TaskIds :
        /\ hist[t].delay > 0
        /\ tasks[t].status = "running"
        /\ \E w \in Threads : pc[w] = "exec" /\ cur[w].task = t

\* ------------------------------------------------------------------ C8
\* C8 as stated: in every state a task's priority is max(1, original - retries).
C8_PriorityFloor_EveryState ==
    \A t \in TaskIds :
        tasks[t].priority = Max(1, hist[t].original - tasks[t].retries)

\* C8 amended: a task queued, held or running has priority
\* max(1, original - retries); a permanently failed one has retries =
\* max_retries and keeps max(1, original - (max_retries - 1)), the final
\* failure counting a retry without lowering the priority; in every state
\* 1 <= priority <= original.
C8_PriorityFloor ==
    \A t \in TaskIds :
        /\ tasks[t].retries < max_retries
              => tasks[t].priority = Max(1, hist[t].original - tasks[t].retries)
        /\ PermanentlyFailed(t)
              => /\ tasks[t].retries = max_retries
                 /\ tasks[t].priority = Max(1, hist[t].original - (max_retries - 1))
        /\ tasks[t].priority >= 1
        /\ tasks[t].priority <= hist[t].original

\* one task was requeued down to the floor, another failed for good above it
C8_Witness ==
    /\ \E t \in TaskIds :
          PermanentlyFailed(t) /\ hist[t].original = 4 /\ tasks[t].priority = 2
    /\ \E t \in TaskIds :
          tasks[t].retries = 2 /\ hist[t].original = 1 /\ tasks[t].priority = 1

\* ------------------------------------------------------------------ C9
\* C9: once a task is completed or recorded as permanently failed, it stays
\* so, its record (status, retries, priority) never changes, it is never in
\* the queue, never enters the running set and is never dispatched again.
C9_TerminalAbsorbing ==
    [][\A t \in TaskIds :
          Terminal(t)
          => /\ Terminal(t)'
             /\ tasks'[t] = tasks[t]
             /\ ~InQueue(t) /\ ~InQueue(t)'
             /\ InRunning(t)' => InRunning(t)
             /\ hist'[t].attempts = hist[t].attempts
             /\ \A w \in Threads : Holds(w, t)' => Holds(w, t)]_vars

\* a completed task and a permanently failed one, both released, with a worker
\* back at the queue
C9_Witness ==
    /\ \E t \in TaskIds : Completed(t) /\ Settled(t) /\ ~InRunning(t)
    /\ \E t \in TaskIds : PermanentlyFailed(t) /\ Settled(t) /\ ~InRunning(t)
    /\ \E w \in Threads : pc[w] = "get"

\* ------------------------------------------------------------------ C7
\* the queue holds an eligible task L and a task H of smaller priority value
\* that is not yet eligible, and there is a worker thread
HeadOfLine(L, H) ==
    /\ L \in TaskIds /\ H \in TaskIds
    /\ workers >= 1
    /\ InQueue(L) /\ Eligible(L)
    /\ InQueue(H) /\ ~Eligible(H)
    /\ tasks[H].priority < tasks[L].priority

\* C7: from such a state, workers being scheduled, L is dispatched without
\* having to wait for H's time to come (the formula lets H's time come first
\* only because the clock may advance before any worker moves).
C7_NoHeadOfLineBlocking ==
    \A L, H \in 1..MaxTasks :
        HeadOfLine(L, H)
        ~> ((L \in TaskIds /\ tasks[L].status = "running")
            \/ (H \in TaskIds /\ Eligible(H)))

\* ----------------------------------------------------------------- C10
Recorded(t) == \E i \in 1..Len(completed_tasks) : completed_tasks[i].id = tasks[t].task_id

\* C10: with a started pool that is not stopped, workers being scheduled and
\* the clock advancing, every submitted task whose body returns normally is
\* eventually completed and recorded in completed_tasks.
C10_Progress ==
    \A t \in 1..MaxTasks :
        (t \in TaskIds /\ tasks[t].name = "ok" /\ workers >= 1)
        ~> (t \in TaskIds /\ Completed(t) /\ Recorded(t))

\* a task whose body returns is completed and recorded although a more urgent
\* task was submitted before it with a delay and failed at least once
C10_Witness ==
    \E t, u \in TaskIds :
        /\ tasks[t].name = "ok" /\ Completed(t) /\ Recorded(t)
        /\ u < t
        /\ hist[u].original < hist[t].original
        /\ hist[u].delay > 0
        /\ tasks[u].retries > 0

\* ----------------------------------------------------------------- C11
\* C11: once stop_workers has cleared the running flag, no step dispatches a
\* task: no task starts a further attempt while the flag is cleared.
C11_StopAdmitsNoNewWork ==
    [][~running => \A t \in TaskIds : hist'[t].attempts = hist[t].attempts]_vars

\* ----------------------------------------------------------------- C12
\* A name that matches none of the branches of execute_task: the else branch
\* runs for it and returns "Executed: <name>".
UnknownNames == {"unknown"}

add_task_any_name ==
    \E name \in Names \cup UnknownNames, priority \in Priorities, delay \in Delays :
        add_task(name, priority, delay)

NextUnknownName ==
    \/ Tick
    \/ add_task_any_name
    \/ start_workers_once
    \/ \E w \in Threads : Worker(w)

\* One worker; tasks of known and unknown names are submitted.
UnknownNameSpec == InitOneWorker /\ [][NextUnknownName]_vars

\* C12: a task whose name has no handler is never completed, and once its
\* first dispatch is over it is permanently failed with retries = 0.
C12_UnknownNameFails ==
    \A t \in TaskIds :
        tasks[t].name \in UnknownNames =>
            /\ ~Completed(t)
            /\ (hist[t].attempts > 0 /\ Settled(t))
                  => (PermanentlyFailed(t) /\ tasks[t].retries = 0)

\* ----------------------------------------------------------------- C13
\* Arguments outside the documented ranges; add_task takes them as they come.
InvalidPriorities == {0}
InvalidDelays == {-1}

add_task_any_args ==
    \E name \in Names, priority \in Priorities \cup InvalidPriorities,
       delay \in Delays \cup InvalidDelays :
        add_task(name, priority, delay)

NextSubmit ==
    \/ Tick
    \/ add_task_any_args

\* A caller submits with valid and invalid arguments; no pool is started.
SubmitSpec == Init /\ [][NextSubmit]_vars

\* C13: a call of add_task with priority < 1 or delay < 0 leaves no trace: no
\* task exists that was created from such arguments (no id allocated, nothing
\* enqueued).
C13_ArgumentValidation ==
    \A t \in TaskIds : hist[t].original >= 1 /\ hist[t].delay >= 0

\* ----------------------------------------------------------------- C14
\* add_task called by several threads: the scheduler holds no lock around it,
\* so the threads interleave between its reads and writes of task_counter.
\* A caller enters add_task(name, priority, delay).
CallAdd(c, name, priority, delay) ==
    /\ call[c].pc = "idle"
    /\ Len(tasks) + Cardinality({d \in Callers : call[d].pc # "idle"}) < MaxTasks
    /\ call' = [call EXCEPT ![c] = [NoCall EXCEPT !.pc = "load", !.name = name,
                                                    !.priority = priority, !.delay = delay]]
    /\ UNCHANGED <<now, task_counter, tasks, task_queue, running_tasks, completed_tasks,
                   failed_tasks, running, worker_count, workers, pc, cur, hist>>

\* self.task_counter += 1, the read of the attribute ...
CallLoad(c) ==
    /\ call[c].pc = "load"
    /\ call' = [call EXCEPT ![c].counter = task_counter, ![c].pc = "store"]
    /\ UNCHANGED <<now, task_counter, tasks, task_queue, running_tasks, completed_tasks,
                   failed_tasks, running, worker_count, workers, pc, cur, hist>>

\* ... and the write of the sum
CallStore(c) ==
    /\ call[c].pc = "store"
    /\ task_counter' = call[c].counter + 1
    /\ call' = [call EXCEPT ![c].pc = "id"]
    /\ UNCHANGED <<now, tasks, task_queue, running_tasks, completed_tasks,
                   failed_tasks, running, worker_count, workers, pc, cur, hist>>

\* task_id = f"task_{self.task_counter}_{int(time.time())}"
CallId(c) ==
    /\ call[c].pc = "id"
    /\ call' = [call EXCEPT ![c].task_id = TaskId(task_counter, now), ![c].pc = "put"]
    /\ UNCHANGED <<now, task_counter, tasks, task_queue, running_tasks, completed_tasks,
                   failed_tasks, running, worker_count, workers, pc, cur, hist>>

\* scheduled_time = time.time() + delay; task = self.Task(...); self.task_queue.put(...)
CallPut(c) ==
    /\ call[c].pc = "put"
    /\ LET task == NewTask(call[c].task_id, call[c].name, call[c].priority,
                           now + call[c].delay, now)
           ts == Append(tasks, task)
       IN /\ tasks' = ts
          /\ task_queue' = heappush(task_queue,
                                    [priority |-> call[c].priority, task |-> Len(ts)], ts)
    /\ hist' = Append(hist, [original |-> call[c].priority, submitted |-> now,
                              delay |-> call[c].delay, attempts |-> 0])
    /\ call' = [call EXCEPT ![c] = NoCall]
    /\ UNCHANGED <<now, task_counter, running_tasks, completed_tasks, failed_tasks,
                   running, worker_count, workers, pc, cur>>

Caller(c) ==
    \/ \E name \in Names, priority \in Priorities, delay \in Delays :
          CallAdd(c, name, priority, delay)
    \/ CallLoad(c)
    \/ CallStore(c)
    \/ CallId(c)
    \/ CallPut(c)

NextConcurrentSubmit ==
    \/ Tick
    \/ \E c \in Callers : Caller(c)

\* Several threads submit; no pool is started.
ConcurrentSubmitSpec == Init /\ [][NextConcurrentSubmit]_vars

\* C14: any two submitted tasks have different task ids.
C14_UniqueIds ==
    \A t, u \in TaskIds : t # u => tasks[t].task_id # tasks[u].task_id

\* ----------------------------------------------------------------- C15
\* worker threads that were started and have not left worker_function
LiveWorkers == {w \in Threads : pc[w] \notin {"unborn", "done"}}

\* C15: however often start_workers is called, the number of live workers is
\* at most worker_count, the number after one call.
C15_IdempotentStart == Cardinality(LiveWorkers) <= worker_count

\* ----------------------------------------------------------------- C16
\* C16: in the state a stop_workers call leaves, a further stop_workers call
\* changes nothing: flag, queue, running set and both stores stay as they are.
C16_IdempotentStop ==
    [][stop_workers => ~(ENABLED <<stop_workers>>_vars)']_vars

\* stop_workers has been called while a task was queued and an attempt of
\* another task, failed once before, was in flight
C16_Witness ==
    /\ ~running
    /\ task_queue # <<>>
    /\ \E w \in Threads : pc[w] = "exec" /\ tasks[cur[w].task].retries > 0

\* ----------------------------------------------------------------- C17
\* C17: whenever a worker takes from the queue a task that is eligible, every
\* other queued eligible task of the same priority has a later
\* scheduled_time, or the same scheduled_time and a later submission (tasks
\* are numbered in the order of their creation).
C17_TieBreak ==
    [][\A w \in Threads :
          (pc[w] = "get" /\ pc'[w] = "got" /\ Eligible(cur'[w].task))
          => \A u \in QueuedTasks \ {cur'[w].task} :
                (Eligible(u) /\ tasks[u].priority = tasks[cur'[w].task].priority)
                => \/ tasks[cur'[w].task].scheduled_time < tasks[u].scheduled_time
                   \/ /\ tasks[cur'[w].task].scheduled_time = tasks[u].scheduled_time
                      /\ cur'[w].task < u]_vars

\* ----------------------------------------------------------------- C18
\* A task is submitted, dispatched and completed with no other step in
\* between; of the task only the counter and its record in completed_tasks
\* remain.  Completions are counted up to MaxOverflow beyond the capacity and
\* come either with no failure recorded or after the last recorded failure.
RunToCompletion ==
    LET before == IF failed_tasks = <<>> THEN 0 ELSE failed_maxlen + MaxOverflow
        done == [NewTask(TaskId(task_counter + 1, now), "ok", 1, now, now)
                    EXCEPT !.status = "completed"]
    IN /\ task_counter >= before
       /\ task_counter < before + completed_maxlen + MaxOverflow
       /\ task_counter' = task_counter + 1
       /\ completed_tasks' = deque_append(completed_tasks, to_dict(done), completed_maxlen)
       /\ UNCHANGED <<now, tasks, task_queue, running_tasks, failed_tasks, running,
                      worker_count, workers, pc, cur, hist, call>>

\* A task is submitted and fails on every attempt with no other step in
\* between; of the task only the counter and its record in failed_tasks
\* remain.  Failures are counted up to MaxOverflow beyond the capacity and come
\* before any completion.
RunToFailure ==
    LET failed == [NewTask(TaskId(task_counter + 1, now), "flaky", 1, now, now)
                      EXCEPT !.status = "failed", !.retries = max_retries]
    IN /\ completed_tasks = <<>>
       /\ task_counter < failed_maxlen + MaxOverflow
       /\ task_counter' = task_counter + 1
       /\ failed_tasks' = FailStore(failed_tasks, failed)
       /\ UNCHANGED <<now, tasks, task_queue, running_tasks, completed_tasks, running,
                      worker_count, workers, pc, cur, hist, call>>

NextStore ==
    \/ RunToCompletion
    \/ RunToFailure

\* Tasks run to their end one after the other until the stores overflow.
StoreSpec == Init /\ [][NextStore]_vars

\* what an append of the last record of new to old leaves when the capacity is n
Evicting(old, new, n) ==
    /\ new # <<>>
    /\ Len(new) <= n
    /\ \A i \in 1..Len(old) : old[i] # new[Len(new)]
    /\ new = IF Len(old) = n THEN Append(Tail(old), new[Len(new)])
                             ELSE Append(old, new[Len(new)])

\* C18: completed_tasks never holds more than 1000 records and failed_tasks
\* never more than 500; a step that changes a store appends one new record,
\* and when the store was full it drops exactly the oldest record and keeps
\* the others in their order.
C18_BoundedStores ==
    [][/\ completed_tasks' # completed_tasks => Evicting(completed_tasks, completed_tasks', 1000)
       /\ failed_tasks' # failed_tasks => Evicting(failed_tasks, failed_tasks', 500)]_vars

\* both stores are full and each has dropped its oldest record
C18_Witness ==
    /\ Len(failed_tasks) = 500
    /\ failed_tasks[1].id # TaskId(1, 1)
    /\ Len(completed_tasks) = 1000
    /\ completed_tasks[1].id # TaskId(failed_maxlen + MaxOverflow + 1, 1)

\* ----------------------------------------------------------------- C19
\* C19: the key under which a task sits in the queue equals the task's
\* priority field, also after a failed attempt was requeued.
C19_RequeueKey ==
    \A i \in 1..Len(task_queue) :
        task_queue[i].priority = tasks[task_queue[i].task].priority

\* ----------------------------------------------------------------- C20
\* C20: while a worker executes the body of a task, the task is a member of
\* running_tasks, so running_tasks has at least as many members as there are
\* attempts in flight.
C20_RunningTracksAttempts ==
    /\ \A w \in Threads : pc[w] = "exec" => InRunning(cur[w].task)
    /\ Cardinality(RunningIds) >= Cardinality({w \in Threads : pc[w] = "exec"})

\* ----------------------------------------------------------------- C21
\* C21: every task that is an entry of the queue has status pending, and a
\* task has status failed only when it is permanently failed.
C21_QueuedTasksPending ==
    /\ \A t \in QueuedTasks : tasks[t].status = "pending"
    /\ \A t \in TaskIds : tasks[t].status = "failed" => PermanentlyFailed(t)

====
